---- MODULE Spec2Model ----
(***************************************************************************)
(* Model of crater-website/hack/i18n/bootstrap.py: the i18n bootstrap      *)
(* that scans the documentation tree, groups files into document families, *)
(* elects a source of truth per family and plans creation/update targets.  *)
(*                                                                         *)
(* A path string is a sequence of components, each component a sequence of *)
(* its dot-separated segments: "content/docs/a.zh.mdx" is                  *)
(*   << <<"content">>, <<"docs">>, <<"a","zh","mdx">> >>.                  *)
(* Two path strings are equal iff these sequences are equal.  All paths    *)
(* are written relative to PROJECT_ROOT (PROJECT_ROOT / p is one-to-one).  *)
(***************************************************************************)
EXTENDS Integers, Sequences, FiniteSets, TLC

VARIABLES
    default_locale,      \* get_i18n_config()[0]
    supported_locales,   \* list(locales_map.keys())
    changed_files,       \* args.changed_files, as its comma-separated tokens
    unscanned,           \* files os.walk has not yet yielded
    scanned,             \* candidate files the scan has classified
    doc_families,        \* dict prefix -> {lang -> path}, in insertion order
    scan_result,         \* doc_families as the scan left it
    changed_files_list,  \* the parsed changed paths
    pc,                  \* "scan", "filter", "process", "done", "exit0", "crashed"
    idx,                 \* position of the family loop in doc_families
    resolved,            \* per attempted family: what step 3.1/3.2 decided
    calls,               \* translate_files calls issued, in order
    written              \* files written by the creation loop

vars == <<default_locale, supported_locales, changed_files, unscanned, scanned,
          doc_families, scan_result, changed_files_list, pc, idx, resolved,
          calls, written>>

\* ---------------------------------------------------------------- bounds
MaxTokens == 3

\* ------------------------------------------------------- sequence helpers
Front(s) == SubSeq(s, 1, Len(s) - 1)

Last(s) == s[Len(s)]

Range(s) == { s[i] : i \in 1..Len(s) }

IsPrefix(s, t) == Len(s) <= Len(t) /\ SubSeq(t, 1, Len(s)) = s

\* ------------------------------------------------------ pathlib operations
\* Path.parent
parent(p) == Front(p)

\* Path.name, as its dot-separated segments
name(p) == Last(p)

\* Path.suffix: the last dot-segment of the name, if the name has a dot
suffix(p) == IF Len(name(p)) > 1 THEN <<Last(name(p))>> ELSE <<>>

\* Path.stem: the name without its suffix
stem(p) == IF Len(name(p)) > 1 THEN Front(name(p)) ELSE name(p)

\* dir / "<segments joined by dots>"
Join(dir, segs) == Append(dir, segs)

\* Path(f"{prefix}{tail}"): the text appended to the last component
Concat(prefix, tail) == [prefix EXCEPT ![Len(prefix)] = @ \o tail]

\* ------------------------------------------------------ the module's paths
project_root_name == <<"crater-website">>

SCAN_DIRECTORIES ==
    << << <<"content">>, <<"docs">> >>, << <<"messages">> >> >>

Docs == SCAN_DIRECTORIES[1]

\* The files a tree may hold under the scanned directories.
Universe ==
    { Join(Docs, <<"a", "mdx">>),
      Join(Docs, <<"a", "zh", "mdx">>),
      Join(Docs, <<"a", "fr", "mdx">>),
      Join(Docs, <<"a", "zh", "zh", "mdx">>),
      Join(Docs, <<"a", "txt">>),
      Join(Join(Docs, <<"a">>), <<"zh", "json">>),
      << <<"messages">>, <<"en", "json">> >> }

\* The registries the configuration file may declare: the default locale
\* and the supported locales, the default being one of them.
Registries ==
    { [default |-> "en", locales |-> <<"en", "zh">>],
      [default |-> "en", locales |-> <<"en", "zh", "fr">>],
      [default |-> "zh", locales |-> <<"en", "zh">>] }

\* One comma-separated piece of --changed-files: text with optional blanks
\* around it; text <<>> is the empty text.
TokenList ==
    << [pad |-> FALSE, text |-> <<>>],
       [pad |-> TRUE, text |-> <<>>],
       [pad |-> FALSE, text |-> Join(Docs, <<"a", "mdx">>)],
       [pad |-> FALSE, text |-> Join(Docs, <<"a", "zh", "mdx">>)],
       [pad |-> FALSE, text |-> Join(Docs, <<"a", "fr", "mdx">>)],
       [pad |-> TRUE, text |-> Join(Join(Docs, <<"a">>), <<"zh", "json">>)],
       [pad |-> FALSE,
        text |-> << project_root_name, <<"messages">>, <<"en", "json">> >>] >>

\* The pieces at the positions S of TokenList, in that order.
Pick(S) ==
    LET at == SelectSeq([i \in 1..Len(TokenList) |-> i], LAMBDA i : i \in S)
    IN  [k \in 1..Len(at) |-> TokenList[at[k]]]

\* The values of --changed-files: at most MaxTokens pieces.  The code only
\* tests membership in the parsed list, so each set of pieces is given in
\* one order, without repeats.
ChangedFilesArgs ==
    { Pick(S) : S \in { T \in SUBSET (1..Len(TokenList)) :
                          Cardinality(T) >= 1 /\ Cardinality(T) <= MaxTokens } }

\* ------------------------------------------------ get_path_prefix_and_lang
get_path_prefix_and_lang(file_path, default, supported) ==
    LET dir_path == parent(file_path)
        base_name_parts == stem(file_path)
    IN  IF Len(base_name_parts) > 1 /\ Last(base_name_parts) \in Range(supported)
        THEN [prefix |-> Join(dir_path, Front(base_name_parts)),
              lang |-> Last(base_name_parts)]
        ELSE IF Len(base_name_parts) = 1 /\ base_name_parts[1] \in Range(supported)
        THEN [prefix |-> dir_path, lang |-> base_name_parts[1]]
        ELSE [prefix |-> Join(dir_path, base_name_parts), lang |-> default]

\* ------------------------------------------------------------ dict helpers
\* A dict is a sequence of [key, val] entries in insertion order.
Keys(d) == { d[i].key : i \in 1..Len(d) }

Values(d) == { d[i].val : i \in 1..Len(d) }

Get(d, k) == d[CHOOSE i \in 1..Len(d) : d[i].key = k].val

\* d[k] = v: an existing key keeps its position, a new key goes last
Put(d, k, v) ==
    IF k \in Keys(d)
    THEN [i \in 1..Len(d) |-> IF d[i].key = k THEN [key |-> k, val |-> v] ELSE d[i]]
    ELSE Append(d, [key |-> k, val |-> v])

\* {k: v for k, v in d.items() if v in keep}
FilterValues(d, keep) == SelectSeq(d, LAMBDA e : e.val \in keep)

\* ------------------------------------------------------- step 1: the scan
\* the extension filter of the walk
IsCandidate(file) ==
    Len(name(file)) > 1 /\ Last(name(file)) \in {"mdx", "json", "md"}

\* which entry of SCAN_DIRECTORIES the file lies under
ScanDirIndex(file) ==
    CHOOSE i \in 1..Len(SCAN_DIRECTORIES) : IsPrefix(SCAN_DIRECTORIES[i], parent(file))

\* os.walk order: directories of SCAN_DIRECTORIES in turn, each top-down
\* (a directory's files before those of its subdirectories); the order of
\* the files inside one directory is the operating system's.
WalkBefore(f, g) ==
    \/ ScanDirIndex(f) < ScanDirIndex(g)
    \/ /\ ScanDirIndex(f) = ScanDirIndex(g)
       /\ parent(f) # parent(g)
       /\ IsPrefix(parent(f), parent(g))

\* doc_families[path_prefix][lang] = file_path
InsertFile(families, file, default, supported) ==
    LET c == get_path_prefix_and_lang(file, default, supported)
        old == IF c.prefix \in Keys(families) THEN Get(families, c.prefix) ELSE <<>>
    IN  Put(families, c.prefix, Put(old, c.lang, file))

\* ----------------------------------------------- step 2: the change filter
\* bool(args.changed_files): the string is not empty
IsGiven(tokens) == ~(Len(tokens) = 1 /\ tokens[1] = [pad |-> FALSE, text |-> <<>>])

\* [p.strip() for p in args.changed_files.split(',') if p.strip()]
raw_paths(tokens) ==
    LET kept == SelectSeq(tokens, LAMBDA t : t.text # <<>>)
    IN  [i \in 1..Len(kept) |-> kept[i].text]

\* PROJECT_ROOT / relative_path, the root name stripped when it leads
absolute_path(raw) ==
    IF raw[1] = project_root_name THEN SubSeq(raw, 2, Len(raw)) ELSE raw

ParseChanged(tokens) ==
    LET raw == raw_paths(tokens)
    IN  [i \in 1..Len(raw) |-> absolute_path(raw[i])]

\* AffectedFamilies treating "nothing affected" as a full scan
AffectedFamilies_AllWhenNone(families, changed) ==
    LET hit == SelectSeq(families, LAMBDA f : Values(f.val) \cap Range(changed) # {})
    IN  IF Len(hit) = 0 THEN families ELSE hit

\* AffectedFamilies without the membership test
AffectedFamilies_Unfiltered(families, changed) == families

\* affected_families: the families with a member path in the changed list
AffectedFamilies(families, changed) ==
    SelectSeq(families, LAMBDA f : Values(f.val) \cap Range(changed) # {})

\* ------------------------------------- step 3.1: the source of truth
\* family_changed_files
family_changed_files(files_map, changed) == FilterValues(files_map, Range(changed))

Elected(e) == [outcome |-> "elected", lang |-> e.key, path |-> e.val]

Skipped(why) == [outcome |-> why, lang |-> "", path |-> <<>>]

\* Resolve without the default-locale priority rule
Resolve_NoPriority(files_map, default, changed) ==
    LET fc == family_changed_files(files_map, changed)
    IN  IF Len(fc) = 1 THEN Elected(fc[1])
        ELSE IF Len(fc) > 1 THEN Skipped("ambiguous")
        ELSE IF default \in Keys(files_map)
        THEN Elected([key |-> default, val |-> Get(files_map, default)])
        ELSE IF Len(files_map) > 0 THEN Elected(files_map[1])
        ELSE Skipped("empty")

\* Resolve taking the first changed member where several were changed
Resolve_PickFirstChanged(files_map, default, changed) ==
    LET fc == family_changed_files(files_map, changed)
    IN  IF default \in Keys(fc)
        THEN Elected([key |-> default, val |-> Get(fc, default)])
        ELSE IF Len(fc) >= 1 THEN Elected(fc[1])
        ELSE IF default \in Keys(files_map)
        THEN Elected([key |-> default, val |-> Get(files_map, default)])
        ELSE IF Len(files_map) > 0 THEN Elected(files_map[1])
        ELSE Skipped("empty")

\* Resolve preferring the family's default-locale member whether or not it changed
Resolve_DefaultWhenPresent(files_map, default, changed) ==
    LET fc == family_changed_files(files_map, changed)
    IN  IF default \in Keys(files_map)
        THEN Elected([key |-> default, val |-> Get(files_map, default)])
        ELSE IF Len(fc) = 1 THEN Elected(fc[1])
        ELSE IF Len(fc) > 1 THEN Skipped("ambiguous")
        ELSE IF Len(files_map) > 0 THEN Elected(files_map[1])
        ELSE Skipped("empty")

Resolve(files_map, default, changed) ==
    LET fc == family_changed_files(files_map, changed)
    IN  IF default \in Keys(fc)
        THEN Elected([key |-> default, val |-> Get(fc, default)])
        ELSE IF Len(fc) = 1 THEN Elected(fc[1])
        ELSE IF Len(fc) > 1 THEN Skipped("ambiguous")
        ELSE IF default \in Keys(files_map)
        THEN Elected([key |-> default, val |-> Get(files_map, default)])
        ELSE IF Len(files_map) > 0 THEN Elected(files_map[1])
        ELSE Skipped("empty")

\* ------------------------------------------------ step 3.2: the targets
targets_to_create(supported, files_map) ==
    SelectSeq(supported, LAMBDA lang : lang \notin Keys(files_map))

\* targets_to_update without the test against the source-of-truth locale
targets_to_update_KeepSource(supported, files_map, source_of_truth_lang) ==
    SelectSeq(supported, LAMBDA lang : lang \in Keys(files_map))

targets_to_update(supported, files_map, source_of_truth_lang) ==
    SelectSeq(supported,
              LAMBDA lang : lang \in Keys(files_map) /\ lang # source_of_truth_lang)

\* ------------------------------------------- step 3.3: the created files
\* The locales translate_files returns content for when it is asked to
\* create target_languages.
creation_results(target_languages) == Range(target_languages)

\* target_path of a created file
target_path(prefix, lang, source_of_truth_path, default, supported) ==
    LET source_suffix == suffix(source_of_truth_path)
        source_stem == stem(source_of_truth_path)
    IN  IF Len(source_stem) = 1 /\ source_stem[1] \in Range(supported)
        THEN Join(prefix, <<lang>> \o source_suffix)
        ELSE IF lang = default
        THEN Concat(prefix, source_suffix)
        ELSE Concat(prefix, <<lang>> \o source_suffix)

\* paths_for_update
paths_for_update(files_map, source_of_truth_path, to_update) ==
    <<source_of_truth_path>> \o [i \in 1..Len(to_update) |-> Get(files_map, to_update[i])]

\* ------------------------------------------------------------ the run
Init ==
    /\ \E r \in Registries :
          /\ default_locale = r.default
          /\ supported_locales = r.locales
    /\ changed_files \in ChangedFilesArgs
    /\ unscanned \in SUBSET Universe
    /\ scanned = {}
    /\ doc_families = <<>>
    /\ scan_result = <<>>
    /\ changed_files_list = <<>>
    /\ pc = "scan"
    /\ idx = 1
    /\ resolved = <<>>
    /\ calls = <<>>
    /\ written = {}

\* one turn of the walk's inner loop
ScanFile ==
    /\ pc = "scan"
    /\ \E file \in unscanned :
          /\ \A g \in unscanned : ~WalkBefore(g, file)
          /\ unscanned' = unscanned \ {file}
          /\ IF IsCandidate(file)
             THEN /\ doc_families' = InsertFile(doc_families, file, default_locale,
                                                supported_locales)
                  /\ scanned' = scanned \cup {file}
             ELSE UNCHANGED <<doc_families, scanned>>
    /\ UNCHANGED <<default_locale, supported_locales, changed_files, scan_result,
                   changed_files_list, pc, idx, resolved, calls, written>>

\* step 2, entered when the walk is over
ChangeFilter ==
    /\ pc = "scan"
    /\ unscanned = {}
    /\ scan_result' = doc_families
    /\ IF IsGiven(changed_files)
       THEN /\ changed_files_list' = ParseChanged(changed_files)
            /\ doc_families' = AffectedFamilies(doc_families, changed_files_list')
            /\ pc' = IF Len(doc_families') = 0 THEN "exit0" ELSE "process"
       ELSE /\ UNCHANGED <<changed_files_list, doc_families>>
            /\ pc' = IF Len(doc_families) = 0 THEN "done" ELSE "process"
    /\ UNCHANGED <<default_locale, supported_locales, changed_files, unscanned,
                   scanned, idx, resolved, calls, written>>

\* one turn of the family loop; create_ok and update_ok say whether the
\* translation backend's creation call and update call return or raise
ProcessFamily(create_ok, update_ok) ==
    /\ pc = "process"
    /\ LET prefix == doc_families[idx].key
           files_map == doc_families[idx].val
           sot == Resolve(files_map, default_locale, changed_files_list)
           to_create == targets_to_create(supported_locales, files_map)
           to_update == targets_to_update(supported_locales, files_map, sot.lang)
           next_pc == IF idx = Len(doc_families) THEN "done" ELSE "process"
           create_call == [family |-> idx, mode |-> "create", source_lang |-> sot.lang,
                           file_paths |-> <<sot.path>>, targets |-> to_create,
                           ok |-> create_ok]
           update_call == [family |-> idx, mode |-> "update", source_lang |-> sot.lang,
                           file_paths |-> paths_for_update(files_map, sot.path, to_update),
                           targets |-> to_update, ok |-> update_ok]
           created == { [family |-> idx, lang |-> lang,
                         path |-> target_path(prefix, lang, sot.path, default_locale,
                                              supported_locales)] :
                        lang \in creation_results(to_create) }
           create_done == Len(to_create) = 0 \/ create_ok
           update_done == Len(to_update) = 0 \/ update_ok
       IN  IF sot.outcome # "elected"
           THEN /\ resolved' = Append(resolved,
                       [prefix |-> prefix, files_map |-> files_map, sot |-> sot,
                        to_create |-> <<>>, to_update |-> <<>>])
                /\ pc' = next_pc
                /\ UNCHANGED <<calls, written>>
           ELSE /\ resolved' = Append(resolved,
                       [prefix |-> prefix, files_map |-> files_map, sot |-> sot,
                        to_create |-> to_create, to_update |-> to_update])
                /\ calls' = calls
                       \o (IF Len(to_create) > 0 THEN <<create_call>> ELSE <<>>)
                       \o (IF create_done /\ Len(to_update) > 0
                           THEN <<update_call>> ELSE <<>>)
                /\ written' = IF Len(to_create) > 0 /\ create_ok
                              THEN written \cup created ELSE written
                /\ pc' = IF create_done /\ update_done THEN next_pc ELSE "crashed"
    /\ idx' = idx + 1
    /\ UNCHANGED <<default_locale, supported_locales, changed_files, unscanned,
                   scanned, doc_families, scan_result, changed_files_list>>

Next ==
    \/ ScanFile
    \/ ChangeFilter
    \/ \E create_ok, update_ok \in BOOLEAN : ProcessFamily(create_ok, update_ok)

Spec == Init /\ [][Next]_vars

\* ------------------------------------------------------ the exit status
Terminated == pc \in {"done", "exit0", "crashed"}

\* 0 when main returns or calls sys.exit(0), 1 on an uncaught exception
ExitStatus == IF pc = "crashed" THEN 1 ELSE 0

\* ------------------------------------------------- vocabulary of the claims
ChangeSet == Range(changed_files_list)

ChangedMembers(files_map) ==
    { i \in 1..Len(files_map) : files_map[i].val \in ChangeSet }

HasChangedDefault(files_map) ==
    /\ default_locale \in Keys(files_map)
    /\ Get(files_map, default_locale) \in ChangeSet

Attempted == 1..Len(resolved)

IsElected(i) == resolved[i].sot.outcome = "elected"

CallsOf(i) == { k \in 1..Len(calls) : calls[k].family = i }

WritesOf(i) == { w \in written : w.family = i }

NoDuplicates(s) == Cardinality(Range(s)) = Len(s)

\* ----------------------------------------------------------------- claims

\* C1: a family whose default-locale member is in the change set has
\* (default locale, that member's path) elected as its source of truth,
\* however many other members changed; once the run has completed, every
\* such family of the scan was attempted, none was passed over.
C1_DefaultLocalePriority ==
    /\ \A i \in Attempted :
          HasChangedDefault(resolved[i].files_map)
          => resolved[i].sot =
                [outcome |-> "elected", lang |-> default_locale,
                 path |-> Get(resolved[i].files_map, default_locale)]
    /\ pc = "done"
       => \A j \in 1..Len(scan_result) :
             HasChangedDefault(scan_result[j].val)
             => \E i \in Attempted : resolved[i].prefix = scan_result[j].key

\* C1 witness: a family with its default-locale member and another member
\* both changed was resolved to the default-locale member.
C1_Witness ==
    \E i \in Attempted :
       /\ HasChangedDefault(resolved[i].files_map)
       /\ Cardinality(ChangedMembers(resolved[i].files_map)) >= 2
       /\ IsElected(i)
       /\ resolved[i].sot.lang = default_locale

\* C2: a family with two or more changed members, the default-locale member
\* not among them, gets no source of truth, no creation or update call and
\* no written file, and the loop goes on to the next family.
C2_AmbiguousFamilySkipped ==
    \A i \in Attempted :
       ( /\ Cardinality(ChangedMembers(resolved[i].files_map)) >= 2
         /\ ~HasChangedDefault(resolved[i].files_map) )
       => /\ ~IsElected(i)
          /\ CallsOf(i) = {}
          /\ WritesOf(i) = {}
          /\ pc # "crashed" \/ Len(resolved) > i
          /\ i < Len(doc_families) => (Len(resolved) > i \/ pc = "process")

\* C2 witness: an ambiguous family was skipped and a later family was then
\* resolved and translated.
C2_Witness ==
    \E i \in Attempted :
       /\ Cardinality(ChangedMembers(resolved[i].files_map)) >= 2
       /\ ~HasChangedDefault(resolved[i].files_map)
       /\ \E k \in 1..Len(calls) : calls[k].family > i

\* C3: once a translation backend call has failed, the run does not end
\* before every family that survived the change filter has been attempted.
C3_BackendFailureIsolated ==
    ( /\ \E k \in 1..Len(calls) : ~calls[k].ok
      /\ Terminated )
    => Len(resolved) = Len(doc_families)

\* C4: with the default locale among the supported locales, for every family
\* with an elected source of truth, toCreate, toUpdate and the source locale
\* are pairwise disjoint, list no locale twice, and together are exactly the
\* supported locales.
C4_CreateUpdatePartition ==
    default_locale \in Range(supported_locales)
    => \A i \in Attempted :
          IsElected(i)
          => LET create == Range(resolved[i].to_create)
                 update == Range(resolved[i].to_update)
                 source == {resolved[i].sot.lang}
             IN  /\ create \cap update = {}
                 /\ create \cap source = {}
                 /\ update \cap source = {}
                 /\ create \cup update \cup source = Range(supported_locales)
                 /\ NoDuplicates(resolved[i].to_create)
                 /\ NoDuplicates(resolved[i].to_update)

\* C4 witness: a family was planned with locales to create and to update.
C4_Witness ==
    \E i \in Attempted :
       /\ IsElected(i)
       /\ Len(resolved[i].to_create) > 0
       /\ Len(resolved[i].to_update) > 0

\* C5: every file written for a locale L of a family with key K classifies
\* back to (K, L).
C5_DestinationRoundTrip ==
    \A w \in written :
       get_path_prefix_and_lang(w.path, default_locale, supported_locales)
          = [prefix |-> resolved[w.family].prefix, lang |-> w.lang]

\* C6: when the change set parsed from --changed-files is empty, the change
\* filter leaves the family map as the scan built it.
C6_EmptyChangeSetIsFullScan ==
    (pc # "scan" /\ Len(ParseChanged(changed_files)) = 0)
    => doc_families = scan_result

\* C7: when a non-empty change set names no member of any family, the run
\* ends at the change filter with exit status 0, no family attempted, no
\* call issued and no file written.
C7_EmptyResultShortCircuit ==
    ( /\ pc # "scan"
      /\ ChangeSet # {}
      /\ \A j \in 1..Len(scan_result) : Values(scan_result[j].val) \cap ChangeSet = {} )
    => /\ Terminated
       /\ ExitStatus = 0
       /\ resolved = <<>>
       /\ calls = <<>>
       /\ written = {}

\* C7 witness: families were found, none of them affected by the changes.
C7_Witness ==
    /\ pc = "exit0"
    /\ ChangeSet # {}
    /\ Len(scan_result) > 0

\* C8: a family with exactly one changed member, not its default-locale
\* member, has that member elected; a default-locale member it holds is then
\* an update target.
C8_SingleEditRule ==
    \A i \in Attempted :
       LET files_map == resolved[i].files_map
           changed == ChangedMembers(files_map)
       IN  (Cardinality(changed) = 1 /\ ~HasChangedDefault(files_map))
           => /\ \A j \in changed :
                    resolved[i].sot =
                       [outcome |-> "elected", lang |-> files_map[j].key,
                        path |-> files_map[j].val]
              /\ default_locale \in Keys(files_map)
                 => /\ resolved[i].sot.lang # default_locale
                    /\ default_locale \in Range(resolved[i].to_update)

\* C8 witness: the single changed member of a family that also holds an
\* unchanged default-locale file was elected.
C8_Witness ==
    \E i \in Attempted :
       /\ Cardinality(ChangedMembers(resolved[i].files_map)) = 1
       /\ ~HasChangedDefault(resolved[i].files_map)
       /\ default_locale \in Keys(resolved[i].files_map)
       /\ IsElected(i)

\* C9: no file written by the creation loop is a file the scan discovered.
C9_CreationNeverClobbers ==
    \A w \in written : w.path \notin scanned

====
